---------------------------- MODULE Spec2Model ----------------------------
(***************************************************************************)
(* A2UI: the reasoning-to-rendering pipeline (app/agent/brain.py,          *)
(* app/agent/ui_decider.py) and the event stream that exposes it           *)
(* (app/main.py, app/agent/events.py).                                     *)
(*                                                                         *)
(* Representation.  A Python str that the code inspects or concatenates    *)
(* (the query, a username, a focus area, a summary, a record key) is a     *)
(* sequence of one-character strings, so that lower(), split(), rstrip(),  *)
(* isalnum(), capitalize() and substring tests are computed as Python      *)
(* computes them.  Fixed labels that are only passed along (titles, type   *)
(* tags, intent types) are TLA+ strings.  Optional[T] is None == <<>> or   *)
(* Some(v) == <<v>>.                                                       *)
(***************************************************************************)
EXTENDS Integers, Sequences, FiniteSets, TLC

VARIABLES
    pc,         \* position of the request in agent_stream (or of a function under test)
    query,      \* QueryRequest.query
    username,   \* QueryRequest.username, Optional[str]
    connector,  \* AgentBrain.github_connector is configured
    intent,     \* Optional[Intent]: result of classify_intent
    insights,   \* list[Insight]: result of extract_insights / input of decide_ui
    reasoning,  \* Optional[ReasoningResult]: local `reasoning` of agent_stream
    dashboard,  \* Optional[dict]: local `dashboard` of agent_stream
    events,     \* the events yielded so far, in order
    exc,        \* Optional[exception]: the exception raised in the try block
    fetch,      \* the calls of github_connector.get_user_data made so far
    closed_at,  \* Optional[int]: the number of events yielded when the consumer left
    requests,   \* the requests that run concurrently on one event loop
    github      \* Optional[GitHubConnector]: its cache, the clock and its API calls

vars == <<pc, query, username, connector, intent, insights, reasoning, dashboard,
          events, exc, fetch, closed_at, requests, github>>

---------------------------------------------------------------------------
(* Optional values *)

None == <<>>
Some(v) == <<v>>
IsNone(o) == o = <<>>
Get(o) == o[1]

---------------------------------------------------------------------------
(* Python str operations, on sequences of characters *)

LowerChars == <<"a","b","c","d","e","f","g","h","i","j","k","l","m",
                "n","o","p","q","r","s","t","u","v","w","x","y","z">>
UpperChars == <<"A","B","C","D","E","F","G","H","I","J","K","L","M",
                "N","O","P","Q","R","S","T","U","V","W","X","Y","Z">>
DigitChars == <<"0","1","2","3","4","5","6","7","8","9">>
Range(s) == {s[i] : i \in 1..Len(s)}
AlnumChars == Range(LowerChars) \cup Range(UpperChars) \cup Range(DigitChars)
Whitespace == {" "}

\* str.lower() on one character
lower_char(c) ==
    IF c \in Range(UpperChars)
    THEN LowerChars[CHOOSE i \in 1..26 : UpperChars[i] = c]
    ELSE c

\* str.upper() on one character
upper_char(c) ==
    IF c \in Range(LowerChars)
    THEN UpperChars[CHOOSE i \in 1..26 : LowerChars[i] = c]
    ELSE c

\* str.lower()
lower(s) == [i \in 1..Len(s) |-> lower_char(s[i])]

\* str.capitalize(): first character upper-cased, the rest lower-cased
capitalize(s) == [i \in 1..Len(s) |-> IF i = 1 THEN upper_char(s[i]) ELSE lower_char(s[i])]

\* `sub in s`
contains(s, sub) ==
    \E i \in 0..(Len(s) - Len(sub)) : SubSeq(s, i + 1, i + Len(sub)) = sub

\* any(word in s for word in words)
contains_any(s, words) == \E k \in 1..Len(words) : contains(s, words[k])

\* str.endswith(suffix)
endswith(s, suffix) ==
    /\ Len(s) >= Len(suffix)
    /\ SubSeq(s, Len(s) - Len(suffix) + 1, Len(s)) = suffix

\* str.rstrip(chars): drops every trailing character that is in the set chars
RECURSIVE rstrip(_, _)
rstrip(s, chars) ==
    IF s # <<>> /\ s[Len(s)] \in chars
    THEN rstrip(SubSeq(s, 1, Len(s) - 1), chars)
    ELSE s

\* str.replace(c, ""): removes every occurrence of the character c
remove_char(s, c) == SelectSeq(s, LAMBDA x : x # c)

\* str.isalnum(): non-empty and every character alphanumeric
isalnum(s) == s # <<>> /\ \A i \in 1..Len(s) : s[i] \in AlnumChars

\* str.split(): the maximal runs of non-whitespace characters, in order
RECURSIVE split_from(_, _, _)
split_from(s, i, cur) ==
    IF i > Len(s)
    THEN (IF cur = <<>> THEN <<>> ELSE <<cur>>)
    ELSE IF s[i] \in Whitespace
         THEN (IF cur = <<>> THEN <<>> ELSE <<cur>>) \o split_from(s, i + 1, <<>>)
         ELSE split_from(s, i + 1, Append(cur, s[i]))
split(s) == split_from(s, 1, <<>>)

\* " ".join(words)
RECURSIVE join(_)
join(words) ==
    IF words = <<>> THEN <<>>
    ELSE IF Len(words) = 1 THEN words[1]
    ELSE words[1] \o <<" ">> \o join(Tail(words))

\* str(n) for a small natural number
RECURSIVE str_of_nat(_)
str_of_nat(n) ==
    IF n < 10 THEN <<DigitChars[n + 1]>>
    ELSE str_of_nat(n \div 10) \o <<DigitChars[(n % 10) + 1]>>

---------------------------------------------------------------------------
(* String literals of the source *)

S_github == <<"g", "i", "t", "h", "u", "b">>
S_activity == <<"a", "c", "t", "i", "v", "i", "t", "y">>
S_data == <<"d", "a", "t", "a">>
S_Analyzed == <<"A", "n", "a", "l", "y", "z", "e", "d", " ">>
S_for_at == <<" ", "f", "o", "r", " ", "@">>
S_with == <<" ", "w", "i", "t", "h", " ">>
S_key_metrics == <<" ", "k", "e", "y", " ", "m", "e", "t", "r", "i", "c", "s">>
S_Identified == <<"I", "d", "e", "n", "t", "i", "f", "i", "e", "d", " ", "t", "r", "e", "n", "d", "s", " ", "i", "n", " ">>
S_Highlighted == <<"H", "i", "g", "h", "l", "i", "g", "h", "t", "e", "d", " ", "t", "o", "p", " ", "p", "e", "r", "f", "o", "r", "m", "e", "r", "s", " ", "i", "n", " ">>
S_possessive == <<"'", "s">>

K_date == <<"d", "a", "t", "e">>
K_commits == <<"c", "o", "m", "m", "i", "t", "s">>
K_name == <<"n", "a", "m", "e">>
K_stars == <<"s", "t", "a", "r", "s">>
K_language == <<"l", "a", "n", "g", "u", "a", "g", "e">>
K_percentage == <<"p", "e", "r", "c", "e", "n", "t", "a", "g", "e">>
K_Name == <<"N", "a", "m", "e">>
K_Value == <<"V", "a", "l", "u", "e">>

\* brain.py:59-67, the keyword lists in the order they are tested
OverviewWords == << <<"o", "v", "e", "r", "v", "i", "e", "w">>,
                    <<"s", "u", "m", "m", "a", "r", "y">>,
                    <<"d", "a", "s", "h", "b", "o", "a", "r", "d">> >>
TrendWords == << <<"t", "r", "e", "n", "d">>,
                 <<"o", "v", "e", "r", " ", "t", "i", "m", "e">>,
                 <<"g", "r", "o", "w", "t", "h">>,
                 <<"p", "r", "o", "g", "r", "e", "s", "s">> >>
ComparisonWords == << <<"c", "o", "m", "p", "a", "r", "e">>,
                      <<"v", "s">>,
                      <<"v", "e", "r", "s", "u", "s">>,
                      <<"b", "e", "t", "w", "e", "e", "n">> >>
HighlightWords == << <<"h", "i", "g", "h", "l", "i", "g", "h", "t">>,
                     <<"b", "e", "s", "t">>,
                     <<"t", "o", "p">>,
                     <<"m", "o", "s", "t">> >>
DeepDiveWords == << <<"d", "e", "e", "p", " ", "d", "i", "v", "e">>,
                    <<"d", "e", "t", "a", "i", "l", "e", "d">>,
                    <<"a", "n", "a", "l", "y", "z", "e">>,
                    <<"b", "r", "e", "a", "k", "d", "o", "w", "n">> >>
\* brain.py:86, the tokens that announce a username
UserPrepositions == { <<"f", "o", "r">>, <<"o", "f">>, <<"u", "s", "e", "r">>, <<"@">> }

---------------------------------------------------------------------------
(* AgentBrain.classify_intent, brain.py:47-98 *)

\* classify_type with the highlight keywords tested before the trend keywords
classify_type_highlight_first(query_lower) ==
    IF contains_any(query_lower, OverviewWords) THEN "overview"
    ELSE IF contains_any(query_lower, HighlightWords) THEN "highlight"
    ELSE IF contains_any(query_lower, TrendWords) THEN "trend"
    ELSE IF contains_any(query_lower, ComparisonWords) THEN "comparison"
    ELSE IF contains_any(query_lower, DeepDiveWords) THEN "deep_dive"
    ELSE "overview"

\* brain.py:59-71
classify_type(query_lower) ==
    IF contains_any(query_lower, OverviewWords) THEN "overview"
    ELSE IF contains_any(query_lower, TrendWords) THEN "trend"
    ELSE IF contains_any(query_lower, ComparisonWords) THEN "comparison"
    ELSE IF contains_any(query_lower, HighlightWords) THEN "highlight"
    ELSE IF contains_any(query_lower, DeepDiveWords) THEN "deep_dive"
    ELSE "overview"

\* brain.py:74-78
classify_focus(query_lower) ==
    IF contains(query_lower, S_github) THEN Some(S_github)
    ELSE IF contains(query_lower, S_activity) THEN Some(S_activity)
    ELSE None

\* brain.py:84: word.rstrip("'s").rstrip("'s"); the argument of rstrip is a
\* set of characters, so every trailing "'" and "s" goes
clean_word(word) == rstrip(rstrip(word, {"'", "s"}), {"'", "s"})

\* brain.py:85
is_name(clean) == isalnum(remove_char(remove_char(clean, "-"), "_"))

\* brain.py:86-91: the token at i sets the username and ends the scan
qualifies(words, i) ==
    /\ is_name(clean_word(words[i]))
    /\ \/ (i > 1 /\ lower(words[i - 1]) \in UserPrepositions)
       \/ endswith(words[i], S_possessive)

\* brain.py:81-91: the loop over enumerate(words) with its break
RECURSIVE scan_username(_, _)
scan_username(words, i) ==
    IF i > Len(words) THEN None
    ELSE IF qualifies(words, i) THEN Some(clean_word(words[i]))
    ELSE scan_username(words, i + 1)

extract_username(q) == scan_username(split(q), 1)

classify_intent(q) ==
    [ intent_type |-> classify_type(lower(q)),
      focus_area  |-> classify_focus(lower(q)),
      time_scope  |-> Some("recent"),
      username    |-> extract_username(q) ]

---------------------------------------------------------------------------
(* Insight values, brain.py:15-20.  Insight.value is int | float | str |   *)
(* list; the variant is the field kind.  A list value is a sequence of     *)
(* dicts; a dict is the sequence of its <<key, value>> items in insertion  *)
(* order.  A context is an f-string: its literal text and the value        *)
(* interpolated at its end (empty when there is none).                     *)

IntValue(n) == [kind |-> "int", num |-> n, str |-> <<>>, rows |-> <<>>]
StrValue(s) == [kind |-> "str", num |-> 0, str |-> s, rows |-> <<>>]
ListValue(rows) == [kind |-> "list", num |-> 0, str |-> <<>>, rows |-> rows]
Context(text, arg) == Some([text |-> text, arg |-> arg])

Insight(type, title, value, context) ==
    [insight_type |-> type, title |-> title, value |-> value, context |-> context]

S_Python == <<"P","y","t","h","o","n">>
S_Rust == <<"R","u","s","t">>

\* brain.py:230-237
SampleTrend ==
    << << <<K_date, <<"2","0","2","4","-","0","1">>>>, <<K_commits, 45>> >>,
       << <<K_date, <<"2","0","2","4","-","0","2">>>>, <<K_commits, 52>> >>,
       << <<K_date, <<"2","0","2","4","-","0","3">>>>, <<K_commits, 38>> >>,
       << <<K_date, <<"2","0","2","4","-","0","4">>>>, <<K_commits, 61>> >>,
       << <<K_date, <<"2","0","2","4","-","0","5">>>>, <<K_commits, 48>> >>,
       << <<K_date, <<"2","0","2","4","-","0","6">>>>, <<K_commits, 68>> >> >>
\* brain.py:245-251
SampleRanking ==
    << << <<K_name, <<"d","y","n","Q","R">>>>, <<K_stars, 124>>, <<K_commits, 87>> >>,
       << <<K_name, <<"f","i","n","o","r","a","-","a","p","p">>>>, <<K_stars, 89>>, <<K_commits, 56>> >>,
       << <<K_name, <<"f","i","n","a","n","c","e","_","a","i">>>>, <<K_stars, 67>>, <<K_commits, 43>> >>,
       << <<K_name, <<"a","g","-","u","i">>>>, <<K_stars, 45>>, <<K_commits, 32>> >>,
       << <<K_name, <<"p","o","r","t","f","o","l","i","o">>>>, <<K_stars, 23>>, <<K_commits, 19>> >> >>
\* brain.py:259-264
SampleDistribution ==
    << << <<K_language, <<"P","y","t","h","o","n">>>>, <<K_percentage, 45>> >>,
       << <<K_language, <<"T","y","p","e","S","c","r","i","p","t">>>>, <<K_percentage, 30>> >>,
       << <<K_language, <<"J","a","v","a","S","c","r","i","p","t">>>>, <<K_percentage, 15>> >>,
       << <<K_language, <<"D","a","r","t">>>>, <<K_percentage, 10>> >> >>

---------------------------------------------------------------------------
(* The data-source collaborator as extract_insights sees it: one call of   *)
(* get_user_data(target_user) either raises, or returns something that is  *)
(* no GitHubUserData (mapping it raises), or returns a GitHubUserData for  *)
(* that user whose three lists are each empty or not.                      *)

DataParts == {"history", "languages", "repos"}

\* github_connector.py:77-85
GitHubUserData(user, parts) ==
    [ username |-> user,
      total_commits |-> 7,
      repo_count |-> 2,
      top_language |-> S_Rust,
      commit_history |->
          IF "history" \in parts
          THEN << << <<K_date, <<"2","0","2","6","-","0","9">>>>, <<K_commits, 3>> >>,
                  << <<K_date, <<"2","0","2","6","-","1","0">>>>, <<K_commits, 4>> >> >>
          ELSE <<>>,
      language_distribution |->
          IF "languages" \in parts
          THEN << << <<K_language, S_Rust>>, <<K_percentage, 100>> >> >>
          ELSE <<>>,
      top_repositories |->
          IF "repos" \in parts
          THEN << << <<K_name, <<"l","i","n","u","x">>>>, <<K_stars, 9>>, <<K_commits, 7>> >> >>
          ELSE <<>> ]

FetchOutcomes(user) ==
    {[kind |-> "error", data |-> None], [kind |-> "malformed", data |-> None]}
    \cup {[kind |-> "ok", data |-> Some(GitHubUserData(user, parts))] : parts \in SUBSET DataParts}

---------------------------------------------------------------------------
(* AgentBrain, brain.py:100-316 *)

\* Python truthiness of an Optional[str]: None and "" are falsy
truthy(o) == ~IsNone(o) /\ Get(o) # <<>>

\* insights_from_github_data in the order of the fallback dataset, the
\* ranking before the distribution
insights_from_github_data_ranking_first(data) ==
    << Insight("total", "Total Commits", IntValue(data.total_commits),
               Context("Contributions by @", data.username)),
       Insight("total", "Repositories", IntValue(data.repo_count),
               Context("Public repositories", <<>>)),
       Insight("total", "Top Language", StrValue(data.top_language),
               Context("Most used programming language", <<>>)) >>
    \o (IF data.commit_history # <<>>
        THEN << Insight("trend", "Commits Over Time", ListValue(data.commit_history),
                        Context("Recent commit activity", <<>>)) >>
        ELSE <<>>)
    \o (IF data.top_repositories # <<>>
        THEN << Insight("ranking", "Top Repositories", ListValue(data.top_repositories),
                        Context("Most starred repositories", <<>>)) >>
        ELSE <<>>)
    \o (IF data.language_distribution # <<>>
        THEN << Insight("distribution", "Language Distribution",
                        ListValue(data.language_distribution),
                        Context("Code distribution by language", <<>>)) >>
        ELSE <<>>)

\* brain.py:129-189
insights_from_github_data(data) ==
    << Insight("total", "Total Commits", IntValue(data.total_commits),
               Context("Contributions by @", data.username)),
       Insight("total", "Repositories", IntValue(data.repo_count),
               Context("Public repositories", <<>>)),
       Insight("total", "Top Language", StrValue(data.top_language),
               Context("Most used programming language", <<>>)) >>
    \o (IF data.commit_history # <<>>
        THEN << Insight("trend", "Commits Over Time", ListValue(data.commit_history),
                        Context("Recent commit activity", <<>>)) >>
        ELSE <<>>)
    \o (IF data.language_distribution # <<>>
        THEN << Insight("distribution", "Language Distribution",
                        ListValue(data.language_distribution),
                        Context("Code distribution by language", <<>>)) >>
        ELSE <<>>)
    \o (IF data.top_repositories # <<>>
        THEN << Insight("ranking", "Top Repositories", ListValue(data.top_repositories),
                        Context("Most starred repositories", <<>>)) >>
        ELSE <<>>)

\* brain.py:205-266, the literal fallback dataset
SampleInsights ==
    << Insight("total", "Total Commits", IntValue(312),
               Context("All-time contributions (sample data)", <<>>)),
       Insight("total", "Repositories", IntValue(18),
               Context("Active repositories (sample data)", <<>>)),
       Insight("total", "Top Language", StrValue(S_Python),
               Context("Most used programming language (sample data)", <<>>)),
       Insight("trend", "Commits Over Time", ListValue(SampleTrend),
               Context("Monthly commit activity (sample data)", <<>>)),
       Insight("ranking", "Top Repositories", ListValue(SampleRanking),
               Context("Repositories by activity and stars (sample data)", <<>>)),
       Insight("distribution", "Language Distribution", ListValue(SampleDistribution),
               Context("Code distribution by language (sample data)", <<>>)) >>

\* get_sample_insights with `and` for `or` in its condition
get_sample_insights_and(it) ==
    IF it.focus_area = Some(S_github) /\ it.intent_type = "overview"
    THEN SampleInsights
    ELSE <<>>

\* brain.py:191-268
get_sample_insights(it) ==
    IF it.focus_area = Some(S_github) \/ it.intent_type = "overview"
    THEN SampleInsights
    ELSE <<>>

\* target_user with the username of the query preferred to the override
target_user_query_first(it, user) == IF truthy(it.username) THEN it.username ELSE user

\* brain.py:115
target_user(it, user) == IF truthy(user) THEN user ELSE it.username

\* fetches with the username of the query alone
fetches_for_query_user(it, user, conn) == conn /\ truthy(it.username)

\* brain.py:118: the connector is called
fetches(it, user, conn) == conn /\ truthy(target_user(it, user))

\* brain.py:120-121 raise: get_user_data raises ("error"), or mapping what it
\* returned raises ("malformed")
fetch_raises(outcome) == outcome.kind # "ok"

\* str(e) of the exception raised inside the try block
fetch_error(outcome) ==
    IF outcome.kind = "error" THEN "GitHub API error" ELSE "not a GitHubUserData"

\* a handler that catches the connector's own exception only
except_catches_api_errors_only(outcome) == outcome.kind = "error"

\* brain.py:122: `except Exception` catches whatever the try block raised
except_catches(outcome) == outcome.kind \in {"error", "malformed"}

Returned(ins) == [raised |-> FALSE, error |-> "", insights |-> ins]
Raised(msg) == [raised |-> TRUE, error |-> msg, insights |-> <<>>]

\* what the connector may do for this request: FetchOutcomes when line 120
\* is reached, nothing otherwise
NotCalled == [kind |-> "not called", data |-> None]
Outcomes(it, user, conn) ==
    IF fetches(it, user, conn) THEN FetchOutcomes(Get(target_user(it, user))) ELSE {NotCalled}

\* the record of the call at line 120, when it is made
fetch_log(it, user, conn, outcome) ==
    IF fetches(it, user, conn)
    THEN <<[user |-> Get(target_user(it, user)), kind |-> outcome.kind,
            data |-> outcome.data]>>
    ELSE <<>>

\* brain.py:100-127; outcome is what the call of get_user_data at line 120
\* does when it is made
extract_insights(it, user, conn, outcome) ==
    IF fetches(it, user, conn)
    THEN IF ~fetch_raises(outcome)
         THEN Returned(insights_from_github_data(Get(outcome.data)))
         ELSE IF except_catches(outcome)
              THEN Returned(get_sample_insights(it))
              ELSE Raised(fetch_error(outcome))
    ELSE Returned(get_sample_insights(it))

\* brain.py:305
count_totals(ins) == Len(SelectSeq(ins, LAMBDA i : i.insight_type = "total"))

\* brain.py:307
username_str(it) == IF truthy(it.username) THEN S_for_at \o Get(it.username) ELSE <<>>

\* `intent.focus_area or default`
focus_or(it, default) == IF truthy(it.focus_area) THEN Get(it.focus_area) ELSE default

\* brain.py:295-316
generate_summary(it, ins) ==
    IF it.intent_type = "overview"
    THEN S_Analyzed \o focus_or(it, S_activity) \o username_str(it)
         \o S_with \o str_of_nat(count_totals(ins)) \o S_key_metrics
    ELSE IF it.intent_type = "trend"
    THEN S_Identified \o focus_or(it, S_activity) \o username_str(it)
    ELSE IF it.intent_type = "highlight"
    THEN S_Highlighted \o focus_or(it, S_activity) \o username_str(it)
    ELSE S_Analyzed \o focus_or(it, S_data) \o username_str(it)

\* brain.py:270-293
reason(q, user, conn, outcome) ==
    LET it == classify_intent(q)
        ex == extract_insights(it, user, conn, outcome)
    IN  IF ex.raised
        THEN [raised |-> TRUE, error |-> ex.error, result |-> None]
        ELSE [raised |-> FALSE, error |-> "",
              result |-> Some([intent |-> it, insights |-> ex.insights,
                               summary |-> generate_summary(it, ex.insights)])]

---------------------------------------------------------------------------
(* UIDecider, ui_decider.py:18-176 *)

of_type(ins, type) == SelectSeq(ins, LAMBDA i : i.insight_type = type)

min(a, b) == IF a < b THEN a ELSE b

\* ui_decider.py:112, "Max 3 columns"
MaxColumns == 3

\* ui_decider.py:67-88
generate_dashboard_title(r) ==
    IF r.intent.focus_area = Some(S_github)
    THEN IF r.intent.intent_type = "overview" THEN "GitHub Activity Overview"
         ELSE IF r.intent.intent_type = "trend" THEN "GitHub Trends"
         ELSE IF r.intent.intent_type = "highlight" THEN "GitHub Highlights"
         ELSE "GitHub Analytics"
    ELSE "Dashboard"

\* ui_decider.py:102-107
create_card(insight) ==
    [type |-> "card", title |-> insight.title, value |-> insight.value,
     subtitle |-> insight.context]

\* grid_columns without the cap
grid_columns_uncapped(cards) == Len(cards)

\* ui_decider.py:112
grid_columns(cards) == min(Len(cards), MaxColumns)

\* ui_decider.py:90-114
create_kpi_grid(totals) ==
    LET cards == [k \in 1..Len(totals) |-> create_card(totals[k])]
    IN  [type |-> "grid", columns |-> grid_columns(cards), children |-> cards]

\* `value if isinstance(value, list) else []`
list_or_empty(value) == IF value.kind = "list" THEN value.rows ELSE <<>>

\* ui_decider.py:116-132
create_line_chart(trend) ==
    [type |-> "lineChart", title |-> trend.title, dataKey |-> "trend_data",
     data |-> list_or_empty(trend.value), xAxisKey |-> K_date, yAxisKey |-> K_commits]

\* ui_decider.py:134-150
create_pie_chart(distribution) ==
    [type |-> "pieChart", title |-> distribution.title, dataKey |-> "distribution_data",
     data |-> list_or_empty(distribution.value),
     nameKey |-> K_language, valueKey |-> K_percentage]

\* first_item.keys()
keys(item) == [k \in 1..Len(item) |-> item[k][1]]

\* table_columns with the keys as they are
table_columns_uncapitalized(data) ==
    IF data # <<>> THEN keys(data[1]) ELSE <<>>

\* ui_decider.py:163-170
table_columns(data) ==
    IF data # <<>> THEN [k \in 1..Len(keys(data[1])) |-> capitalize(keys(data[1])[k])] ELSE <<>>

\* ui_decider.py:152-176
create_table(ranking) ==
    LET data == list_or_empty(ranking.value)
        columns == table_columns(data)
    IN  [type |-> "table", title |-> ranking.title,
         columns |-> IF columns # <<>> THEN columns ELSE <<K_Name, K_Value>>,
         data |-> data]

\* dashboard_children with the tables appended before the pie charts
dashboard_children_tables_first(totals, trends, distributions, rankings) ==
    (IF totals # <<>> THEN <<create_kpi_grid(totals)>> ELSE <<>>)
    \o [k \in 1..Len(trends) |-> create_line_chart(trends[k])]
    \o [k \in 1..Len(rankings) |-> create_table(rankings[k])]
    \o [k \in 1..Len(distributions) |-> create_pie_chart(distributions[k])]

\* ui_decider.py:42-63: the four sections in the order they are appended
dashboard_children(totals, trends, distributions, rankings) ==
    (IF totals # <<>> THEN <<create_kpi_grid(totals)>> ELSE <<>>)
    \o [k \in 1..Len(trends) |-> create_line_chart(trends[k])]
    \o [k \in 1..Len(distributions) |-> create_pie_chart(distributions[k])]
    \o [k \in 1..Len(rankings) |-> create_table(rankings[k])]

\* decide_ui with a card for every peak and outlier insight
decide_ui_with_highlights(r) ==
    [type |-> "dashboard",
     title |-> generate_dashboard_title(r),
     children |-> dashboard_children(of_type(r.insights, "total"),
                                     of_type(r.insights, "trend"),
                                     of_type(r.insights, "distribution"),
                                     of_type(r.insights, "ranking"))
                  \o [k \in 1..Len(of_type(r.insights, "peak")) |->
                         create_card(of_type(r.insights, "peak")[k])]
                  \o [k \in 1..Len(of_type(r.insights, "outlier")) |->
                         create_card(of_type(r.insights, "outlier")[k])]]

\* ui_decider.py:18-65
decide_ui(r) ==
    [type |-> "dashboard",
     title |-> generate_dashboard_title(r),
     children |-> dashboard_children(of_type(r.insights, "total"),
                                     of_type(r.insights, "trend"),
                                     of_type(r.insights, "distribution"),
                                     of_type(r.insights, "ranking"))]

---------------------------------------------------------------------------
(* Event helpers, agent/events.py.  format_event wraps the event's JSON in *)
(* "data: ...\n\n"; an emitted chunk is modelled by the event it carries.  *)

\* events.py:28-39
create_loading_event(message) ==
    [type |-> "agent.loading", payload |-> [status |-> "processing", message |-> message]]

\* events.py:42-53
create_message_event(text) == [type |-> "agent.message", payload |-> [text |-> text]]

\* create_render_event building a UIUpdateEvent
create_render_event_as_update(d) == [type |-> "ui.update", payload |-> d]

\* events.py:56-65
create_render_event(d) == [type |-> "ui.render", payload |-> d]

\* events.py:80-92
create_error_event(error, code) ==
    [type |-> "agent.error", payload |-> [error |-> error, code |-> code]]

---------------------------------------------------------------------------
(* Requests *)

W_Show == <<"S", "h", "o", "w">>
W_me == <<"m", "e">>
W_an == <<"a", "n">>
W_overview == <<"o", "v", "e", "r", "v", "i", "e", "w">>
W_of == <<"o", "f">>
W_Of == <<"O", "f">>
W_for == <<"f", "o", "r">>
W_dashboard == <<"d", "a", "s", "h", "b", "o", "a", "r", "d">>
W_torvalds == <<"t", "o", "r", "v", "a", "l", "d", "s">>
W_Trends == <<"T", "r", "e", "n", "d", "s">>
W_top == <<"t", "o", "p">>
W_vs == <<"v", "s">>
W_linus_s == <<"l", "i", "n", "u", "s", "'", "s">>
W_over == <<"o", "v", "e", "r">>
W_time == <<"t", "i", "m", "e">>
W_analyze == <<"a", "n", "a", "l", "y", "z", "e">>
W_v2_0 == <<"v", "2", ".", "0">>
W_octo_cat == <<"o", "c", "t", "o", "-", "c", "a", "t">>
W_repos == <<"r", "e", "p", "o", "s">>
W_compare == <<"c", "o", "m", "p", "a", "r", "e">>
W_octocat == <<"o", "c", "t", "o", "c", "a", "t">>

Q_overview_of_github == join(<<W_Show, W_me, W_an, W_overview, W_of, S_github>>)
Q_dashboard_for_torvalds == join(<<W_dashboard, W_for, W_torvalds>>)
Q_top_repos == join(<<W_top, W_repos>>)
Q_compare_activity == join(<<W_compare, W_linus_s, S_activity>>)
Q_github_trends == join(<<S_github, W_Trends, W_for, W_octo_cat>>)

\* the queries of the requests that are streamed
StreamQueries ==
    {Q_overview_of_github, Q_dashboard_for_torvalds, Q_top_repos, Q_compare_activity,
     Q_github_trends}

\* QueryRequest.username: absent, empty, or a name (main.py:52)
Usernames == {None, Some(<<>>), Some(W_octocat)}

---------------------------------------------------------------------------
(* agent_stream, main.py:60-112: one request.                              *)
(*                                                                         *)
(* pc is the place the generator is at.  "yield<k>" is the generator       *)
(* suspended at its k-th yield, "sleep<k>" suspended in the sleep after    *)
(* it; "reasoned", "composed" and "except" are places it runs through      *)
(* without suspending.  "done" is the generator exhausted, "closed" the    *)
(* generator closed by its consumer.                                       *)

STREAM_DELAY_POINTS == {"yield1", "yield2", "yield3", "yield4"}
SuspendedAt == STREAM_DELAY_POINTS \cup {"sleep1", "sleep2", "sleep3", "sleep4",
                                        "yield5", "yield_error"}

Exception(raised_by, message) == Some([raised_by |-> raised_by, message |-> message])

Init ==
    /\ pc = "start"
    /\ query \in StreamQueries
    /\ username \in Usernames
    /\ connector \in BOOLEAN
    /\ intent = None
    /\ insights = <<>>
    /\ reasoning = None
    /\ dashboard = None
    /\ events = <<>>
    /\ exc = None
    /\ fetch = <<>>
    /\ closed_at = None
    /\ requests = <<>>
    /\ github = None

Emit(event) == events' = Append(events, event)

\* main.py:79-80
EmitLoading1 ==
    /\ pc = "start"
    /\ Emit(create_loading_event("Analyzing your request..."))
    /\ pc' = "yield1"
    /\ UNCHANGED <<query, username, connector, intent, insights, reasoning, dashboard,
                   exc, fetch, closed_at,
                   requests, github>>

\* main.py:81, 86, 93, 100: the consumer asks for the next chunk and the
\* generator goes to sleep for STREAM_DELAY
Sleep ==
    /\ pc \in STREAM_DELAY_POINTS
    /\ pc' = (CASE pc = "yield1" -> "sleep1" [] pc = "yield2" -> "sleep2"
                [] pc = "yield3" -> "sleep3" [] pc = "yield4" -> "sleep4")
    /\ UNCHANGED <<query, username, connector, intent, insights, reasoning, dashboard,
                   events, exc, fetch, closed_at,
                   requests, github>>

\* main.py:84-85
EmitLoading2 ==
    /\ pc = "sleep1"
    /\ Emit(create_loading_event("Extracting insights..."))
    /\ pc' = "yield2"
    /\ UNCHANGED <<query, username, connector, intent, insights, reasoning, dashboard,
                   exc, fetch, closed_at,
                   requests, github>>

\* main.py:88: brain.reason(query, username).  The connector, when it is
\* called, does one of FetchOutcomes; unexpected is an exception of reason
\* that its own handler does not expect (a defect, MemoryError), raised
\* before extract_insights reaches the connector or after it has
Reason ==
    /\ pc = "sleep2"
    /\ \E outcome \in Outcomes(classify_intent(query), username, connector),
          unexpected \in {"no", "before fetch", "after fetch"} :
          LET it == classify_intent(query)
              r == reason(query, username, connector, outcome)
          IN  /\ fetch' = IF unexpected = "before fetch" THEN fetch
                          ELSE fetch \o fetch_log(it, username, connector, outcome)
              /\ IF unexpected # "no"
                 THEN /\ exc' = Exception("reason", "unexpected failure in reason")
                      /\ reasoning' = reasoning
                      /\ pc' = "except"
                 ELSE IF r.raised
                 THEN /\ exc' = Exception("get_user_data", r.error)
                      /\ reasoning' = reasoning
                      /\ pc' = "except"
                 ELSE /\ exc' = exc
                      /\ reasoning' = r.result
                      /\ pc' = "reasoned"
    /\ UNCHANGED <<query, username, connector, intent, insights, dashboard, events, closed_at,
                   requests, github>>

\* main.py:91-92
EmitLoading3 ==
    /\ pc = "reasoned"
    /\ Emit(create_loading_event("Composing dashboard..."))
    /\ pc' = "yield3"
    /\ UNCHANGED <<query, username, connector, intent, insights, reasoning, dashboard,
                   exc, fetch, closed_at,
                   requests, github>>

\* Compose placed before the third loading event
Compose_before_loading ==
    /\ pc = "reasoned"
    /\ dashboard' = Some(decide_ui(Get(reasoning)))
    /\ pc' = "composed"
    /\ UNCHANGED <<query, username, connector, intent, insights, reasoning, events,
                   exc, fetch, closed_at,
                   requests, github>>

\* main.py:95: ui_decider.decide_ui(reasoning); unexpected is an exception
\* raised inside it (a defect in composition)
Compose ==
    /\ pc = "sleep3"
    /\ \E unexpected \in BOOLEAN :
          IF unexpected
          THEN /\ exc' = Exception("decide_ui", "unexpected failure in decide_ui")
               /\ dashboard' = dashboard
               /\ pc' = "except"
          ELSE /\ exc' = exc
               /\ dashboard' = Some(decide_ui(Get(reasoning)))
               /\ pc' = "composed"
    /\ UNCHANGED <<query, username, connector, intent, insights, reasoning, events, fetch, closed_at,
                   requests, github>>

\* main.py:98-99
EmitMessage ==
    /\ pc = "composed"
    /\ Emit(create_message_event(Get(reasoning).summary))
    /\ pc' = "yield4"
    /\ UNCHANGED <<query, username, connector, intent, insights, reasoning, dashboard,
                   exc, fetch, closed_at,
                   requests, github>>

\* a last stage that yields nothing
EmitRender_skipped ==
    /\ pc = "sleep4"
    /\ pc' = "yield5"
    /\ UNCHANGED <<query, username, connector, intent, insights, reasoning, dashboard,
                   events, exc, fetch, closed_at, requests, github>>

\* main.py:103-104
EmitRender ==
    /\ pc = "sleep4"
    /\ Emit(create_render_event(Get(dashboard)))
    /\ pc' = "yield5"
    /\ UNCHANGED <<query, username, connector, intent, insights, reasoning, dashboard,
                   exc, fetch, closed_at,
                   requests, github>>

\* a handler that yields nothing
EmitError_swallowed ==
    /\ pc = "except"
    /\ pc' = "yield_error"
    /\ UNCHANGED <<query, username, connector, intent, insights, reasoning, dashboard,
                   events, exc, fetch, closed_at,
                   requests, github>>

\* main.py:106-112: the handler of `except Exception`
EmitError ==
    /\ pc = "except"
    /\ Emit(create_error_event(Get(exc).message, "PROCESSING_ERROR"))
    /\ pc' = "yield_error"
    /\ UNCHANGED <<query, username, connector, intent, insights, reasoning, dashboard,
                   exc, fetch, closed_at,
                   requests, github>>

\* the consumer asks for the next chunk after the last yield: the generator
\* runs off its end
Finish ==
    /\ pc \in {"yield5", "yield_error"}
    /\ pc' = "done"
    /\ UNCHANGED <<query, username, connector, intent, insights, reasoning, dashboard,
                   events, exc, fetch, closed_at,
                   requests, github>>

\* a disconnect that the handler of the try block catches
Disconnect_caught ==
    /\ pc \in SuspendedAt \ {"yield5", "yield_error"}
    /\ pc' = "except"
    /\ exc' = Exception("consumer", "GeneratorExit")
    /\ closed_at' = Some(Len(events))
    /\ UNCHANGED <<query, username, connector, intent, insights, reasoning, dashboard,
                   events, fetch, requests, github>>

\* The consumer disconnects while the generator is suspended: GeneratorExit
\* (or CancelledError) is raised at that point; neither is an Exception, so
\* the handler at main.py:106 does not run
Disconnect ==
    /\ pc \in SuspendedAt
    /\ pc' = "closed"
    /\ closed_at' = Some(Len(events))
    /\ UNCHANGED <<query, username, connector, intent, insights, reasoning, dashboard,
                   events, exc, fetch, requests, github>>

Next ==
    \/ EmitLoading1
    \/ Sleep
    \/ EmitLoading2
    \/ Reason
    \/ EmitLoading3
    \/ Compose
    \/ EmitMessage
    \/ EmitRender
    \/ EmitError
    \/ Finish
    \/ Disconnect

Spec == Init /\ [][Next]_vars

---------------------------------------------------------------------------
(* classify_intent on its own: every query of at most MaxWords words of    *)
(* the vocabulary, joined by single spaces.                                *)

MaxWords == 3

Vocabulary ==
    {W_dashboard, W_for, W_torvalds, W_Of, W_Trends, W_top, W_vs, W_linus_s,
     W_over, W_time, W_analyze, S_github, W_v2_0}

WordLists == UNION {[1..n -> Vocabulary] : n \in 0..MaxWords}
Queries == {join(ws) : ws \in WordLists}

InitClassify ==
    /\ pc = "classify"
    /\ query \in Queries
    /\ username = None
    /\ connector = FALSE
    /\ intent = None
    /\ insights = <<>>
    /\ reasoning = None
    /\ dashboard = None
    /\ events = <<>>
    /\ exc = None
    /\ fetch = <<>>
    /\ closed_at = None
    /\ requests = <<>>
    /\ github = None

\* brain.py:281
Classify ==
    /\ pc = "classify"
    /\ intent' = Some(classify_intent(query))
    /\ pc' = "classified"
    /\ UNCHANGED <<query, username, connector, insights, reasoning, dashboard, events,
                   exc, fetch, closed_at,
                   requests, github>>

SpecClassify == InitClassify /\ [][Classify]_vars

---------------------------------------------------------------------------
(* extract_insights on its own: every Intent, every username override,     *)
(* with and without a connector, and every outcome of the fetch.           *)

IntentTypes == {"overview", "trend", "comparison", "highlight", "deep_dive"}

\* brain.py:7-12
Intents ==
    [intent_type : IntentTypes,
     focus_area : {None, Some(S_github), Some(S_activity)},
     time_scope : {Some("recent")},
     username : {None, Some(W_torvalds)}]

InitExtract ==
    /\ pc = "extract"
    /\ query = <<>>
    /\ username \in Usernames
    /\ connector \in BOOLEAN
    /\ intent \in {Some(it) : it \in Intents}
    /\ insights = <<>>
    /\ reasoning = None
    /\ dashboard = None
    /\ events = <<>>
    /\ exc = None
    /\ fetch = <<>>
    /\ closed_at = None
    /\ requests = <<>>
    /\ github = None

\* brain.py:284
Extract ==
    /\ pc = "extract"
    /\ \E outcome \in Outcomes(Get(intent), username, connector) :
          LET ex == extract_insights(Get(intent), username, connector, outcome)
          IN  /\ fetch' = fetch \o fetch_log(Get(intent), username, connector, outcome)
              /\ insights' = ex.insights
              /\ exc' = IF ex.raised THEN Exception("get_user_data", ex.error) ELSE None
              /\ pc' = IF ex.raised THEN "extract raised" ELSE "extracted"
    /\ UNCHANGED <<query, username, connector, intent, reasoning, dashboard, events, closed_at,
                   requests, github>>

SpecExtract == InitExtract /\ [][Extract]_vars

---------------------------------------------------------------------------
(* decide_ui on its own: every list of at most MaxInsights insights, of    *)
(* every type in every order.  The insight at position i carries i in its  *)
(* title, value and context, so that a node tells which insight it is of.  *)

MaxInsights == 5

InsightTypes == {"total", "trend", "ranking", "peak", "outlier", "distribution"}

\* brain.py:15-20
TestInsight(type, i) ==
    Insight(type, ToString(i),
            CASE type = "trend" ->
                   ListValue(<< << <<K_date, str_of_nat(i)>>, <<K_commits, i>> >> >>)
              [] type = "ranking" ->
                   ListValue(<< << <<K_name, str_of_nat(i)>>, <<K_stars, i>>,
                                   <<K_commits, i>> >> >>)
              [] type = "distribution" ->
                   ListValue(<< << <<K_language, str_of_nat(i)>>, <<K_percentage, i>> >> >>)
              [] OTHER -> IntValue(i),
            Context("insight", str_of_nat(i)))

TypeLists == UNION {[1..n -> InsightTypes] : n \in 0..MaxInsights}
TestInsights(types) == [i \in 1..Len(types) |-> TestInsight(types[i], i)]

ComposeIntents ==
    {[intent_type |-> "overview", focus_area |-> Some(S_github),
      time_scope |-> Some("recent"), username |-> None],
     [intent_type |-> "comparison", focus_area |-> None,
      time_scope |-> Some("recent"), username |-> Some(W_torvalds)]}

\* brain.py:23-27
ReasoningResult(it, ins) ==
    [intent |-> it, insights |-> ins, summary |-> generate_summary(it, ins)]

InitCompose ==
    /\ pc = "decide"
    /\ query = <<>>
    /\ username = None
    /\ connector = FALSE
    /\ intent = None
    /\ insights = <<>>
    /\ \E types \in TypeLists, it \in ComposeIntents :
          reasoning = Some(ReasoningResult(it, TestInsights(types)))
    /\ dashboard = None
    /\ events = <<>>
    /\ exc = None
    /\ fetch = <<>>
    /\ closed_at = None
    /\ requests = <<>>
    /\ github = None

\* main.py:95
DecideUI ==
    /\ pc = "decide"
    /\ dashboard' = Some(decide_ui(Get(reasoning)))
    /\ pc' = "decided"
    /\ UNCHANGED <<query, username, connector, intent, insights, reasoning, events,
                   exc, fetch, closed_at,
                   requests, github>>

SpecCompose == InitCompose /\ [][DecideUI]_vars

---------------------------------------------------------------------------
(* decide_ui on one ranking insight: every value a ranking can carry, a     *)
(* list of at most MaxRows records of every kind (one of them with no key)  *)
(* or a value that is not a list.                                           *)

MaxRows == 3

K_topRepo == <<"t", "o", "p", "R", "e", "p", "o">>
K_OWNER == <<"O", "W", "N", "E", "R">>

\* the records of a ranking: github_connector.py:144-150 (name, stars,
\* language), brain.py:233-237 (name, stars, commits), a record with keys
\* in mixed case and a record with no key
RowKinds ==
    { << <<K_name, W_octocat>>, <<K_stars, 3>>, <<K_language, S_Rust>> >>,
      << <<K_name, W_torvalds>>, <<K_stars, 5>>, <<K_commits, 8>> >>,
      << <<K_topRepo, W_octocat>>, <<K_OWNER, W_torvalds>> >>,
      << >> }

RowLists == UNION {[1..n -> RowKinds] : n \in 0..MaxRows}

\* brain.py:19, `value: int | float | str | list`
RankingValues == {ListValue(rows) : rows \in RowLists} \cup {IntValue(7), StrValue(S_Rust)}

InitTable ==
    /\ pc = "decide"
    /\ query = <<>>
    /\ username = None
    /\ connector = FALSE
    /\ intent = None
    /\ insights = <<>>
    /\ \E value \in RankingValues, it \in ComposeIntents :
          reasoning = Some(ReasoningResult(it,
                         <<Insight("ranking", "Top", value, Context("insight", <<>>))>>))
    /\ dashboard = None
    /\ events = <<>>
    /\ exc = None
    /\ fetch = <<>>
    /\ closed_at = None
    /\ requests = <<>>
    /\ github = None

SpecTable == InitTable /\ [][DecideUI]_vars

---------------------------------------------------------------------------
(* Two requests on one event loop, main.py:55-112.  Each call of           *)
(* agent_stream is a coroutine with its own locals (query, username,       *)
(* reasoning, dashboard, e); the coroutines share the module-level `brain` *)
(* and `ui_decider`, whose only attribute is brain.github_connector        *)
(* (brain.py:39-45, ui_decider.py has no __init__).  Control passes from   *)
(* one coroutine to the other at a yield or inside a sleep, so a step of   *)
(* the model is the code between two suspension points.  What the          *)
(* connector answers and whether a stage fails is fixed per request when   *)
(* it starts (response, fault), so that the same request can be run alone. *)

\* main.py:81, 86, 93, 100
sleep_after(at) ==
    CASE at = "yield1" -> "sleep1" [] at = "yield2" -> "sleep2"
      [] at = "yield3" -> "sleep3" [] at = "yield4" -> "sleep4"

\* main.py:106-112: the handler and its yield
handled(r, e) ==
    [r EXCEPT !.pc = "yield_error", !.exc = e,
              !.events = Append(@, create_error_event(Get(e).message, "PROCESSING_ERROR"))]

\* main.py:60-112: the code of agent_stream from one suspension point of the
\* coroutine r to its next one
stream_step(r, conn) ==
    CASE r.pc = "start" ->
           [r EXCEPT !.pc = "yield1",
                     !.events = Append(@, create_loading_event("Analyzing your request..."))]
      [] r.pc \in STREAM_DELAY_POINTS ->
           [r EXCEPT !.pc = sleep_after(r.pc)]
      [] r.pc = "sleep1" ->
           [r EXCEPT !.pc = "yield2",
                     !.events = Append(@, create_loading_event("Extracting insights..."))]
      [] r.pc = "sleep2" ->
           LET res == reason(r.query, r.username, conn, r.response)
           IN  IF r.fault = "reason"
               THEN handled(r, Exception("reason", "unexpected failure in reason"))
               ELSE IF res.raised
               THEN handled(r, Exception("get_user_data", res.error))
               ELSE [r EXCEPT !.pc = "yield3", !.reasoning = res.result,
                              !.events = Append(@, create_loading_event("Composing dashboard..."))]
      [] r.pc = "sleep3" ->
           IF r.fault = "decide_ui"
           THEN handled(r, Exception("decide_ui", "unexpected failure in decide_ui"))
           ELSE [r EXCEPT !.pc = "yield4", !.dashboard = Some(decide_ui(Get(r.reasoning))),
                          !.events = Append(@, create_message_event(Get(r.reasoning).summary))]
      [] r.pc = "sleep4" ->
           [r EXCEPT !.pc = "yield5",
                     !.events = Append(@, create_render_event(Get(r.dashboard)))]
      [] r.pc \in {"yield5", "yield_error"} ->
           [r EXCEPT !.pc = "done"]

\* a step that reads `reasoning` from an attribute of the shared brain: the
\* coroutine sees the result of the other request once that one has reasoned
agent_stream_step_shared(reqs, i, conn) ==
    LET others == {reqs[j].reasoning : j \in {k \in DOMAIN reqs : k # i}} \ {None}
        seen == IF others # {} THEN CHOOSE x \in others : TRUE ELSE reqs[i].reasoning
    IN  stream_step([reqs[i] EXCEPT !.reasoning = seen], conn)

\* main.py:77-104: a step of coroutine i reads and writes its own locals and
\* reads brain.github_connector
agent_stream_step(reqs, i, conn) == stream_step(reqs[i], conn)

\* what the connector answers to a request, when the request calls it
Responses(q, user, conn) ==
    IF fetches(classify_intent(q), user, conn)
    THEN {[kind |-> "error", data |-> None],
          [kind |-> "ok",
           data |-> Some(GitHubUserData(Get(target_user(classify_intent(q), user)),
                                        DataParts))]}
    ELSE {NotCalled}

\* main.py:49-52 and the faults of Reason and Compose
Faults == {"no", "reason", "decide_ui"}
ConcurrentQueries == {Q_dashboard_for_torvalds, Q_top_repos}

\* main.py:115-128: stream_query starts a coroutine for the request
new_request(q, user, response, fault) ==
    [query |-> q, username |-> user, response |-> response, fault |-> fault,
     pc |-> "start", reasoning |-> None, dashboard |-> None, events |-> <<>>, exc |-> None]

NewRequests(conn) ==
    UNION {{new_request(q, user, response, fault) :
               response \in Responses(q, user, conn), fault \in Faults} :
           q \in ConcurrentQueries, user \in {None, Some(W_octocat)}}

InitConcurrent ==
    /\ pc = "serving"
    /\ query = <<>>
    /\ username = None
    /\ connector \in BOOLEAN
    /\ intent = None
    /\ insights = <<>>
    /\ reasoning = None
    /\ dashboard = None
    /\ events = <<>>
    /\ exc = None
    /\ fetch = <<>>
    /\ closed_at = None
    /\ \E a, b \in NewRequests(connector) : requests = <<a, b>>
    /\ github = None

\* the event loop resumes one of the suspended coroutines
Resume ==
    /\ \E i \in DOMAIN requests :
          /\ requests[i].pc # "done"
          /\ requests' = [requests EXCEPT ![i] = agent_stream_step(requests, i, connector)]
    /\ UNCHANGED <<pc, query, username, connector, intent, insights, reasoning, dashboard,
                   events, exc, fetch, closed_at, github>>

SpecConcurrent == InitConcurrent /\ [][Resume]_vars

---------------------------------------------------------------------------
(* One request whose consumer keeps reading: it asks for every next chunk  *)
(* and never disconnects.  A generator that has not finished is then       *)
(* advanced in the end: a sleep of STREAM_DELAY returns (main.py:81, 86,   *)
(* 93, 100), a suspended yield is resumed by the consumer, and the code    *)
(* between two suspension points is straight-line (the connector answers   *)
(* or raises).  Advance is a step to another place of the generator; under *)
(* NextReading it is enabled exactly when a step of NextReading is.        *)

Positions ==
    {"start", "yield1", "sleep1", "yield2", "sleep2", "reasoned", "yield3", "sleep3",
     "composed", "yield4", "sleep4", "yield5", "except", "yield_error", "done"}

Advance == pc # "done" /\ pc' \in Positions \ {pc}

NextReading ==
    \/ EmitLoading1
    \/ Sleep
    \/ EmitLoading2
    \/ Reason
    \/ EmitLoading3
    \/ Compose
    \/ EmitMessage
    \/ EmitRender
    \/ EmitError
    \/ Finish

SpecReading == Init /\ [][NextReading]_vars /\ WF_pc(Advance)

---------------------------------------------------------------------------
(* GitHubConnector.get_user_data and its cache, github_connector.py:31-93. *)
(* github is the connector: its cache (a dict from username to the pair of *)
(* data and timestamp; None where the dict has no key), its cache_ttl, the *)
(* clock time.time() and a record of the last call.  What the API returns  *)
(* changes with time: the data fetched at time t is as_of t.  A fetch      *)
(* takes time, so the timestamp taken at line 88 may be later than the     *)
(* time read at line 60.                                                   *)

MaxTime == 4
MaxTtl == 2
MaxElapsed == 1

CacheUsers == {W_octocat, W_torvalds}

\* github_connector.py:76-85: the data object built from what the API sent
FetchedData(user, time) == [username |-> user, as_of |-> time]

\* is_fresh with an entry that is as old as cache_ttl still served
is_fresh_inclusive(entry, time, cache_ttl) ==
    ~IsNone(entry) /\ time - Get(entry).timestamp <= cache_ttl

\* github_connector.py:58-60: `username in self.cache` and
\* `time.time() - timestamp < self.cache_ttl`
is_fresh(entry, time, cache_ttl) ==
    ~IsNone(entry) /\ time - Get(entry).timestamp < cache_ttl

\* github_connector.py:31-43
InitCache ==
    /\ pc = "connector"
    /\ query = <<>>
    /\ username = None
    /\ connector = TRUE
    /\ intent = None
    /\ insights = <<>>
    /\ reasoning = None
    /\ dashboard = None
    /\ events = <<>>
    /\ exc = None
    /\ fetch = <<>>
    /\ closed_at = None
    /\ requests = <<>>
    /\ \E ttl \in 0..MaxTtl :
          github = [cache |-> [u \in CacheUsers |-> None], cache_ttl |-> ttl, now |-> 0,
                    last |-> None]

\* time passes between two calls
Tick ==
    /\ github.now < MaxTime
    /\ github' = [github EXCEPT !.now = @ + 1]
    /\ UNCHANGED <<pc, query, username, connector, intent, insights, reasoning, dashboard,
                   events, exc, fetch, closed_at, requests>>

\* the record of a call: who for, when, the cache it found, whether the API
\* was contacted, how it ended and the data it returned
Call(user, before, contacted, kind, data) ==
    Some([user |-> user, at |-> before.now, cache |-> before.cache,
          contacted |-> contacted, kind |-> kind, data |-> data])

\* github_connector.py:45-93
GetUserData ==
    /\ \E user \in CacheUsers :
          IF is_fresh(github.cache[user], github.now, github.cache_ttl)
          THEN \* line 61
               github' = [github EXCEPT
                            !.last = Call(user, github, FALSE, "cached",
                                          Some(Get(github.cache[user]).data))]
          ELSE \* lines 64-93: the API answers, or raises GithubException (wrapped at
               \* line 93) or another exception (propagated), after some time
               \E outcome \in {"ok", "GithubException", "other exception"},
                  elapsed \in 0..MaxElapsed :
                  /\ github.now + elapsed <= MaxTime
                  /\ LET time == github.now + elapsed
                         data == FetchedData(user, time)
                     IN  IF outcome = "ok"
                         THEN github' = [github EXCEPT
                                 !.now = time,
                                 !.cache[user] = Some([data |-> data, timestamp |-> time]),
                                 !.last = Call(user, github, TRUE, "fetched", Some(data))]
                         ELSE github' = [github EXCEPT
                                 !.now = time,
                                 !.last = Call(user, github, TRUE, "raised", None)]
    /\ UNCHANGED <<pc, query, username, connector, intent, insights, reasoning, dashboard,
                   events, exc, fetch, closed_at, requests>>

NextCache ==
    \/ Tick
    \/ GetUserData

SpecCache == InitCache /\ [][NextCache]_vars

---------------------------------------------------------------------------
(* Properties of the event stream (specification Spec) *)

EventTypes == [i \in 1..Len(events) |-> events[i].type]
Count(type) == Len(SelectSeq(events, LAMBDA e : e.type = type))
IsPrefix(a, b) == Len(a) <= Len(b) /\ a = SubSeq(b, 1, Len(a))
RaisedBy(who) == ~IsNone(exc) /\ Get(exc).raised_by \in who

SuccessOrder ==
    <<"agent.loading", "agent.loading", "agent.loading", "agent.message", "ui.render">>

\* C1: a run in which reasoning and composition succeed and the consumer stays
\* emits loading, loading, loading, message (text = the summary), render
\* (payload = the composed dashboard), in that order and nothing else: while it
\* runs the events are a prefix of that sequence, and at its end they are it.
C1_SuccessSequence ==
    /\ IsNone(exc) => IsPrefix(EventTypes, SuccessOrder)
    /\ (pc \in {"yield5", "done"} /\ IsNone(exc)) =>
          /\ EventTypes = SuccessOrder
          /\ events[4].payload = [text |-> Get(reasoning).summary]
          /\ events[5].payload = decide_ui(Get(reasoning))

C1_Witness ==
    /\ pc = "done"
    /\ IsNone(exc)
    /\ Len(events) = 5
    /\ events[5].payload.children # <<>>

\* C2: when an exception escapes brain.reason or ui_decider.decide_ui the
\* stream holds exactly one agent.error event, with payload {error, code}; it
\* is the last event, and there is no ui.render event.  No stream ever holds
\* two error events, and none holds one without an exception.
C2_SingleTerminalError ==
    /\ Count("agent.error") <= 1
    /\ IsNone(exc) => Count("agent.error") = 0
    /\ (pc \in {"yield_error", "done", "closed"} /\ ~IsNone(exc)) =>
          /\ Count("agent.error") = 1
          /\ events[Len(events)] =
                [type |-> "agent.error",
                 payload |-> [error |-> Get(exc).message, code |-> "PROCESSING_ERROR"]]
          /\ Count("ui.render") = 0

C2_Witness ==
    /\ pc = "done"
    /\ RaisedBy({"decide_ui"})
    /\ Count("agent.error") = 1
    /\ Count("agent.loading") = 3

ReasonPerformed == ~IsNone(reasoning) \/ RaisedBy({"reason", "get_user_data"})
ComposePerformed == ~IsNone(dashboard) \/ RaisedBy({"decide_ui"})

\* C3 as stated: reasoning and composition are both performed after the second
\* loading event and before the third, and a fault of composition is reported
\* after exactly two loading events.
C3_ComposeBeforeThirdLoading ==
    /\ ReasonPerformed => Count("agent.loading") >= 2
    /\ Count("agent.loading") >= 3 => ReasonPerformed
    /\ ComposePerformed => Count("agent.loading") >= 2
    /\ Count("agent.loading") >= 3 => ComposePerformed
    /\ (RaisedBy({"decide_ui"}) /\ Count("agent.error") = 1) => Count("agent.loading") = 2

\* C3 (amended): reasoning is performed after the second loading event and
\* before the third; composition is performed after the third loading event
\* and before the message event; a fault of composition is reported after
\* exactly three loading events (and nothing else).
C3_ComposeAfterThirdLoading ==
    /\ ReasonPerformed => Count("agent.loading") >= 2
    /\ Count("agent.loading") >= 3 => ReasonPerformed
    /\ ComposePerformed => Count("agent.loading") = 3
    /\ Count("agent.message") >= 1 => ComposePerformed
    /\ (RaisedBy({"decide_ui"}) /\ Count("agent.error") = 1) =>
          EventTypes = <<"agent.loading", "agent.loading", "agent.loading", "agent.error">>

C3_Witness ==
    /\ pc = "yield_error"
    /\ RaisedBy({"decide_ui"})
    /\ Count("agent.loading") = 3
    /\ ~IsNone(reasoning)

ChildTypes(d) == [i \in 1..Len(d.children) |-> d.children[i].type]

\* C4: the query "Show me an overview of github", with no username override and
\* no data source, gives the intent {overview, github, recent, no username},
\* the 6 fallback insights, a dashboard of 1 grid (3 cards), 1 lineChart,
\* 1 pieChart and 1 table, and the summary "Analyzed github with 3 key metrics".
C4_OverviewOfGithubScenario ==
    (pc = "done" /\ IsNone(exc) /\ query = Q_overview_of_github
        /\ IsNone(username) /\ ~connector) =>
       /\ Get(reasoning).intent =
             [intent_type |-> "overview", focus_area |-> Some(S_github),
              time_scope |-> Some("recent"), username |-> None]
       /\ Get(reasoning).insights = SampleInsights
       /\ ChildTypes(Get(dashboard)) = <<"grid", "lineChart", "pieChart", "table">>
       /\ Len(Get(dashboard).children[1].children) = 3
       /\ Get(reasoning).summary =
             S_Analyzed \o S_github \o S_with \o <<"3">> \o S_key_metrics

---------------------------------------------------------------------------
(* Properties of classify_intent (specification SpecClassify) *)

\* the token without one trailing possessive marker "'s"
strip_possessive(w) == IF endswith(w, S_possessive) THEN SubSeq(w, 1, Len(w) - 2) ELSE w

NameChars == AlnumChars \cup {"-", "_"}
is_name_token(w) == w # <<>> /\ \A i \in 1..Len(w) : w[i] \in NameChars
after_preposition(words, i) == i > 1 /\ lower(words[i - 1]) \in UserPrepositions
qualifying(words, i) ==
    /\ is_name_token(strip_possessive(words[i]))
    /\ (after_preposition(words, i) \/ endswith(words[i], S_possessive))

\* C5: when the first qualifying token of the query is a token of
\* alphanumerics, hyphens and underscores that directly follows "for", "of",
\* "user" or "@" (in any case), the username is that token with only a
\* trailing possessive marker removed; "dashboard for torvalds" gives "torvalds".
C5_UsernameAfterPreposition ==
    pc = "classified" =>
       LET words == split(query)
       IN  \A i \in 1..Len(words) :
              (/\ qualifying(words, i)
               /\ \A j \in 1..(i - 1) : ~qualifying(words, j)
               /\ after_preposition(words, i))
              => Get(intent).username = Some(strip_possessive(words[i]))

KeywordIn(words) == \E k \in 1..Len(words) : contains(lower(query), words[k])

\* C6: classify assigns exactly one intent type, the first of overview, trend,
\* comparison, highlight, deep_dive one of whose keywords is a substring of the
\* lower-cased query, and overview when none is; a query with a trend keyword
\* and a highlight keyword and no overview keyword is a trend.
C6_KeywordPriority ==
    pc = "classified" =>
       LET type == Get(intent).intent_type
       IN  /\ type \in IntentTypes
           /\ KeywordIn(OverviewWords) => type = "overview"
           /\ (~KeywordIn(OverviewWords) /\ KeywordIn(TrendWords)) => type = "trend"
           /\ (~KeywordIn(OverviewWords) /\ ~KeywordIn(TrendWords)
                 /\ KeywordIn(ComparisonWords)) => type = "comparison"
           /\ (~KeywordIn(OverviewWords) /\ ~KeywordIn(TrendWords)
                 /\ ~KeywordIn(ComparisonWords) /\ KeywordIn(HighlightWords))
                 => type = "highlight"
           /\ (~KeywordIn(OverviewWords) /\ ~KeywordIn(TrendWords)
                 /\ ~KeywordIn(ComparisonWords) /\ ~KeywordIn(HighlightWords)
                 /\ KeywordIn(DeepDiveWords)) => type = "deep_dive"
           /\ (~KeywordIn(OverviewWords) /\ ~KeywordIn(TrendWords)
                 /\ ~KeywordIn(ComparisonWords) /\ ~KeywordIn(HighlightWords)
                 /\ ~KeywordIn(DeepDiveWords)) => type = "overview"

C6_Witness ==
    /\ pc = "classified"
    /\ KeywordIn(TrendWords)
    /\ KeywordIn(HighlightWords)
    /\ KeywordIn(ComparisonWords)
    /\ ~KeywordIn(OverviewWords)
    /\ Get(intent).intent_type = "trend"

---------------------------------------------------------------------------
(* Properties of extract_insights (specification SpecExtract) *)

InsightTypesOf(ins) == [i \in 1..Len(ins) |-> ins[i].insight_type]

\* C7: with no data source, extract returns the fixed sequence of 6 insights
\* (3 total, a trend of 6 points, a ranking of 5 rows, a distribution of 4
\* rows) when the focus area is "github" or the intent type is overview, and
\* the empty sequence for every other intent.
C7_FallbackDataset ==
    (pc \in {"extracted", "extract raised"} /\ ~connector) =>
       /\ pc = "extracted"
       /\ fetch = <<>>
       /\ IF Get(intent).focus_area = Some(S_github) \/ Get(intent).intent_type = "overview"
          THEN /\ insights = SampleInsights
               /\ InsightTypesOf(insights) =
                     <<"total", "total", "total", "trend", "ranking", "distribution">>
               /\ Len(insights[4].value.rows) = 6
               /\ Len(insights[5].value.rows) = 5
               /\ Len(insights[6].value.rows) = 4
          ELSE insights = <<>>

C7_Witness ==
    /\ pc = "extracted"
    /\ ~connector
    /\ Get(intent).focus_area = Some(S_github)
    /\ Get(intent).intent_type = "comparison"
    /\ Len(insights) = 6

\* C8: when the connector is called and the fetch, or the mapping of what it
\* returned, fails, extract does not raise and returns what it returns for the
\* same intent with no data source configured.
C8_FetchFailureFallsBack ==
    /\ pc # "extract raised"
    /\ (pc = "extracted" /\ fetch # <<>> /\ fetch[1].kind \in {"error", "malformed"}) =>
          /\ IsNone(exc)
          /\ insights = extract_insights(Get(intent), username, FALSE, NotCalled).insights

C8_Witness ==
    /\ pc = "extracted"
    /\ fetch # <<>>
    /\ fetch[1].kind = "malformed"
    /\ Len(insights) = 6

---------------------------------------------------------------------------
(* Properties of decide_ui (specification SpecCompose) *)

Rank(type) ==
    CASE type = "grid" -> 1 [] type = "lineChart" -> 2 [] type = "pieChart" -> 3
      [] type = "table" -> 4 [] OTHER -> 0

NodesOf(d, type) == SelectSeq(d.children, LAMBDA n : n.type = type)
TitlesOf(s) == [i \in 1..Len(s) |-> s[i].title]

\* C9: whatever the order of the insights, the children of the dashboard are at
\* most one grid, then the lineCharts, then the pieCharts, then the tables, and
\* the nodes of each kind follow the input order of their insights.
C9_SectionOrder ==
    pc = "decided" =>
       LET d == Get(dashboard)
           ins == Get(reasoning).insights
       IN  /\ \A i \in 1..Len(d.children) : Rank(d.children[i].type) >= 1
           /\ \A i, j \in 1..Len(d.children) :
                 i < j => Rank(d.children[i].type) <= Rank(d.children[j].type)
           /\ Len(NodesOf(d, "grid")) <= 1
           /\ TitlesOf(NodesOf(d, "lineChart")) = TitlesOf(of_type(ins, "trend"))
           /\ TitlesOf(NodesOf(d, "pieChart")) = TitlesOf(of_type(ins, "distribution"))
           /\ TitlesOf(NodesOf(d, "table")) = TitlesOf(of_type(ins, "ranking"))

C9_Witness ==
    /\ pc = "decided"
    /\ InsightTypesOf(Get(reasoning).insights) =
          <<"ranking", "distribution", "trend", "trend", "total">>
    /\ ChildTypes(Get(dashboard)) = <<"grid", "lineChart", "lineChart", "pieChart", "table">>

\* C10: there is a grid exactly when there is a total insight; it has one card
\* per total insight, in input order, with the insight's value and its context
\* as subtitle; its columns are the number of totals, capped at 3.
C10_KpiGrid ==
    pc = "decided" =>
       LET d == Get(dashboard)
           totals == of_type(Get(reasoning).insights, "total")
           grids == NodesOf(d, "grid")
           n == Len(totals)
       IN  /\ (grids # <<>>) <=> (n >= 1)
           /\ \A g \in 1..Len(grids) :
                 /\ Len(grids[g].children) = n
                 /\ \A k \in 1..n :
                       /\ grids[g].children[k].type = "card"
                       /\ grids[g].children[k].value = totals[k].value
                       /\ grids[g].children[k].subtitle = totals[k].context
                 /\ grids[g].columns = (IF n >= 3 THEN 3 ELSE n)
                 /\ grids[g].columns \in 1..3

C10_Witness ==
    /\ pc = "decided"
    /\ Len(of_type(Get(reasoning).insights, "total")) = 5
    /\ Get(dashboard).children[1].columns = 3
    /\ Len(Get(dashboard).children[1].children) = 5

---------------------------------------------------------------------------
(* Properties of the table of a ranking (specification SpecTable) *)

Capitalized(row) == [k \in 1..Len(row) |-> capitalize(row[k][1])]

\* C11 as stated: the columns of the table of a ranking are the capitalized
\* keys of its first record, in key order, whenever its data is a non-empty
\* list, and Name, Value when the data is empty or not a list; the data of the
\* table is the data of the insight.
C11_ColumnsOfFirstRecord ==
    pc = "decided" =>
       LET t == Get(dashboard).children[1]
           value == Get(reasoning).insights[1].value
       IN  IF value.kind = "list" /\ value.rows # <<>>
           THEN t.columns = Capitalized(value.rows[1]) /\ t.data = value.rows
           ELSE /\ t.columns = <<K_Name, K_Value>>
                /\ t.data = (IF value.kind = "list" THEN value.rows ELSE <<>>)

\* C11, amended: the columns are the capitalized keys of the first record, in
\* key order, when the data is a non-empty list and its first record has at
\* least one key; they are Name, Value when the data is empty, not a list, or
\* begins with a record that has no key.  The data of the table is the list
\* of the insight, and the empty list when the value is not a list.
C11_ColumnsOfFirstRecordWithKeys ==
    pc = "decided" =>
       LET t == Get(dashboard).children[1]
           value == Get(reasoning).insights[1].value
       IN  /\ t.type = "table"
           /\ IF value.kind = "list" /\ value.rows # <<>> /\ value.rows[1] # <<>>
              THEN t.columns = Capitalized(value.rows[1])
              ELSE t.columns = <<K_Name, K_Value>>
           /\ t.data = (IF value.kind = "list" THEN value.rows ELSE <<>>)

C11_Witness ==
    /\ pc = "decided"
    /\ Get(reasoning).insights[1].value.kind = "list"
    /\ Len(Get(reasoning).insights[1].value.rows) = 2
    /\ Get(dashboard).children[1].columns =
          << <<"T", "o", "p", "r", "e", "p", "o">>, <<"O", "w", "n", "e", "r">> >>

---------------------------------------------------------------------------
(* Properties of the target user (specifications Spec and SpecExtract) *)

\* the override when one is given and is not empty, the username of the
\* query otherwise
ResolvedUser(it, override) ==
    IF ~IsNone(override) /\ Get(override) # <<>> THEN override ELSE it.username

\* C12: the summary contains " for @<username>" whenever a username was
\* resolved for the request, from the query or from the override, and no such
\* suffix only when none was resolved.
C12_SummaryNamesResolvedUser ==
    ~IsNone(reasoning) =>
       LET r == Get(reasoning)
           resolved == ResolvedUser(r.intent, username)
       IN  IF IsNone(resolved)
           THEN ~contains(r.summary, S_for_at)
           ELSE contains(r.summary, S_for_at \o Get(resolved))

\* C13 as stated: in extract the target user is the override whenever an
\* override is supplied, the empty string included, and the username of the
\* intent only when the override is absent; the username of the query is never
\* the target of the fetch when an override was supplied.
C13_OverrideWhenSupplied ==
    fetch # <<>> =>
       fetch[1].user = (IF ~IsNone(username) THEN Get(username) ELSE Get(Get(intent).username))

\* C13, amended: the target user is the override whenever the override is
\* supplied and not empty, and the username of the intent when the override is
\* absent or the empty string; the username of the query is never the target
\* of the fetch when a non-empty override was supplied.
C13_OverrideWhenNotEmpty ==
    fetch # <<>> =>
       /\ fetch[1].user = Get(ResolvedUser(Get(intent), username))
       /\ (~IsNone(username) /\ Get(username) # <<>>) => fetch[1].user = Get(username)
       /\ (IsNone(username) \/ Get(username) = <<>>) => fetch[1].user = Get(Get(intent).username)

C13_Witness ==
    /\ pc = "extracted"
    /\ username = Some(W_octocat)
    /\ Get(intent).username = Some(W_torvalds)
    /\ fetch # <<>>
    /\ fetch[1].user = W_octocat

---------------------------------------------------------------------------
(* Properties of a disconnected consumer (specification Spec) *)

\* C14: once the consumer has disconnected, at whichever yield or sleep the
\* generator was suspended, no event is emitted any more: the events are those
\* that had been yielded when it left, the handler of the try block has not
\* run, and there is no agent.error and no ui.render after that point.
C14_NoEventAfterDisconnect ==
    ~IsNone(closed_at) =>
       /\ Len(events) = Get(closed_at)
       /\ \A i \in 1..Len(events) :
             events[i].type \in {"agent.error", "ui.render"} => i <= Get(closed_at)

C14_Witness ==
    /\ closed_at = Some(2)
    /\ pc = "closed"
    /\ EventTypes = <<"agent.loading", "agent.loading">>
    /\ IsNone(reasoning)

---------------------------------------------------------------------------
(* Properties of concurrent requests (specification SpecConcurrent) *)

\* the events of a request that runs alone, with the answers r was given
RECURSIVE alone(_, _)
alone(r, conn) == IF r.pc = "done" THEN r.events ELSE alone(stream_step(r, conn), conn)

\* C15: however two requests are interleaved at their suspension points, the
\* events of each are a prefix of the events it emits when it runs alone with
\* the same answers of its collaborators, and all of them once it is done;
\* nothing a request wrote is read by the other.
C15_RequestsAreIsolated ==
    \A i \in DOMAIN requests :
       LET r == requests[i]
           expected == alone(new_request(r.query, r.username, r.response, r.fault),
                             connector)
       IN  /\ IsPrefix(r.events, expected)
           /\ r.pc = "done" => r.events = expected

C15_Witness ==
    /\ Len(requests) = 2
    /\ requests[1].pc = "done"
    /\ requests[2].pc = "sleep3"
    /\ requests[1].query # requests[2].query
    /\ Len(requests[1].events) = 5
    /\ Len(requests[2].events) = 3
    /\ Get(requests[1].reasoning).summary # Get(requests[2].reasoning).summary

---------------------------------------------------------------------------
(* Properties of the insights of fetched data (specification SpecExtract) *)

OnlyIf(present, type) == IF present THEN <<type>> ELSE <<>>

\* C16: when the fetch succeeds, extract returns the totals of commits, of
\* repositories and of the top language, in that order, then a trend, a
\* distribution and a ranking, each present exactly when its sequence in the
\* fetched data is not empty and carrying that sequence: three to six
\* insights, whatever the type of the intent.
C16_InsightsOfFetchedData ==
    (pc = "extracted" /\ fetch # <<>> /\ fetch[1].kind = "ok") =>
       LET data == Get(fetch[1].data)
           lists == of_type(insights, "trend") \o of_type(insights, "distribution")
                    \o of_type(insights, "ranking")
           sources == SelectSeq(<<data.commit_history, data.language_distribution,
                                  data.top_repositories>>, LAMBDA s : s # <<>>)
       IN  /\ InsightTypesOf(insights) =
                 <<"total", "total", "total">>
                 \o OnlyIf(data.commit_history # <<>>, "trend")
                 \o OnlyIf(data.language_distribution # <<>>, "distribution")
                 \o OnlyIf(data.top_repositories # <<>>, "ranking")
           /\ Len(insights) \in 3..6
           /\ insights[1].value = IntValue(data.total_commits)
           /\ insights[2].value = IntValue(data.repo_count)
           /\ insights[3].value = StrValue(data.top_language)
           /\ [k \in 1..Len(lists) |-> lists[k].value] =
                 [k \in 1..Len(sources) |-> ListValue(sources[k])]

C16_Witness ==
    /\ pc = "extracted"
    /\ fetch # <<>>
    /\ fetch[1].kind = "ok"
    /\ Get(intent).intent_type = "deep_dive"
    /\ Get(fetch[1].data).language_distribution = <<>>
    /\ InsightTypesOf(insights) = <<"total", "total", "total", "trend", "ranking">>

---------------------------------------------------------------------------
(* Properties of the calls of the connector (specification Spec) *)

\* C17: in a request the connector is called at most once, never before the
\* reasoning stage and never again after a failure; when reasoning has
\* returned, it has been called exactly when a connector is configured and a
\* target user is present, and otherwise the insights are the static fallback.
C17_FetchAtMostOnce ==
    /\ Len(fetch) <= 1
    /\ pc \in {"start", "yield1", "sleep1", "yield2", "sleep2"} => fetch = <<>>
    /\ ~IsNone(reasoning) =>
          LET r == Get(reasoning)
              called == connector /\ ~IsNone(ResolvedUser(r.intent, username))
          IN  /\ (Len(fetch) = 1) <=> called
              /\ ~called => r.insights = get_sample_insights(r.intent)

C17_Witness ==
    /\ pc = "done"
    /\ Len(fetch) = 1
    /\ fetch[1].kind = "error"
    /\ fetch[1].user = W_octocat
    /\ ~IsNone(reasoning)
    /\ IsNone(Get(reasoning).intent.username)
    /\ EventTypes[Len(events)] = "ui.render"

---------------------------------------------------------------------------
(* Properties of the insights without a visual (specification SpecCompose) *)

\* C18: compose leaves out the peak and outlier insights without raising: the
\* dashboard has one child for all the totals together, when there is one, and
\* one child per trend, per distribution and per ranking, so that a peak or an
\* outlier adds nothing; the root is always of type dashboard.
C18_PeakAndOutlierOmitted ==
    pc = "decided" =>
       LET d == Get(dashboard)
           ins == Get(reasoning).insights
       IN  /\ d.type = "dashboard"
           /\ Len(d.children) =
                 (IF of_type(ins, "total") # <<>> THEN 1 ELSE 0)
                 + Len(of_type(ins, "trend")) + Len(of_type(ins, "distribution"))
                 + Len(of_type(ins, "ranking"))
           /\ \A k \in 1..Len(d.children) :
                 d.children[k].type \in {"grid", "lineChart", "pieChart", "table"}
           /\ d = decide_ui([Get(reasoning) EXCEPT
                               !.insights = SelectSeq(ins, LAMBDA i :
                                               i.insight_type \notin {"peak", "outlier"})])

C18_Witness ==
    /\ pc = "decided"
    /\ InsightTypesOf(Get(reasoning).insights) = <<"peak", "total", "outlier", "total", "ranking">>
    /\ ChildTypes(Get(dashboard)) = <<"grid", "table">>

---------------------------------------------------------------------------
(* Properties of a request that is read to its end (specification SpecReading) *)

TerminalTypes == {"ui.render", "agent.error"}

\* C19: a run whose consumer keeps reading terminates, and when it has, its
\* last event is the one terminal event of the run, ui.render or agent.error;
\* at every moment the events are at most three agent.loading, at most one
\* agent.message, at most one ui.render and at most one agent.error, never
\* both terminal events, never a ui.update, and nothing after a terminal event.
C19_TerminatesWithOneTerminalEvent ==
    /\ <>(pc = "done")
    /\ [](pc = "done" =>
            /\ events # <<>>
            /\ events[Len(events)].type \in TerminalTypes
            /\ Count("ui.render") + Count("agent.error") = 1)
    /\ [](/\ \A i \in 1..Len(events) :
                /\ events[i].type \in {"agent.loading", "agent.message"} \cup TerminalTypes
                /\ events[i].type \in TerminalTypes => i = Len(events)
          /\ Count("agent.loading") <= 3
          /\ Count("agent.message") <= 1
          /\ Count("ui.render") + Count("agent.error") <= 1
          /\ Count("ui.update") = 0)

C19_Witness ==
    /\ pc = "done"
    /\ EventTypes = <<"agent.loading", "agent.loading", "agent.loading", "agent.error">>
    /\ RaisedBy({"decide_ui"})

---------------------------------------------------------------------------
(* Properties of the connector's cache (specification SpecCache) *)

\* C20: after any sequence of calls, a call for a user returns the cached data
\* without contacting the API exactly when the cache held an entry for that
\* user whose age was strictly less than cache_ttl; data whose entry is older
\* than cache_ttl is never returned; a fetch that fails leaves the cache as it
\* was.
C20_CacheWithinTtl ==
    ~IsNone(github.last) =>
       LET call == Get(github.last)
           entry == call.cache[call.user]
           young == ~IsNone(entry) /\ call.at - Get(entry).timestamp < github.cache_ttl
       IN  /\ (call.kind = "cached") <=> young
           /\ call.contacted <=> ~young
           /\ call.kind = "cached" =>
                 /\ call.data = Some(Get(entry).data)
                 /\ call.at - Get(call.data).as_of < github.cache_ttl
           /\ call.kind = "fetched" =>
                 /\ Get(call.data).as_of >= call.at
                 /\ github.cache[call.user] =
                       Some([data |-> Get(call.data), timestamp |-> Get(call.data).as_of])
           /\ call.kind = "raised" => github.cache = call.cache
           /\ \A u \in CacheUsers : u # call.user => github.cache[u] = call.cache[u]

C20_Witness ==
    /\ ~IsNone(github.last)
    /\ Get(github.last).kind = "raised"
    /\ Get(github.last).user = W_octocat
    /\ github.cache_ttl = 2
    /\ ~IsNone(github.cache[W_octocat])
    /\ Get(github.last).at - Get(github.cache[W_octocat]).timestamp = 2

===========================================================================
